---- MODULE Spec2Model ----
(***************************************************************************)
(* The X-mu library (src/xmu.py): fuzzy sets kept as a membership function *)
(* mu(x) together with the X-mu (alpha-cut) function alpha -> subset of    *)
(* the universe.                                                           *)
(*                                                                         *)
(* Numbers.  The level alpha is the tick k standing for k/AlphaDen.  A     *)
(* control point or universe bound is an integer p; a point of the real    *)
(* line is the integer v standing for v/AlphaDen, so that the end points   *)
(* ALPHA*b - ALPHA*a + a of the shape generators are exact.  With integer  *)
(* control points and AlphaDen a power of two the floats of the code are   *)
(* exact too.                                                              *)
(*                                                                         *)
(* Sets.  A sympy set whose end points lie on that grid is the set of the  *)
(* cells it covers: cell 2v is the point v, cell 2v+1 the open interval    *)
(* (v, v+1), and the outermost cells reach to -oo and +oo.  Union,         *)
(* intersection and difference of such sets are those of their cells, open *)
(* and closed end points included.  An X-mu function, a sympy expression   *)
(* in ALPHA, is the function from the ticks to the set it evaluates to.    *)
(***************************************************************************)
EXTENDS Integers, Sequences, FiniteSets, TLC

\* ---- bounds of the model ----
AlphaDen == 2       \* ticks per unit: alpha in {0, 1/2, 1}
AlphaOut == 1       \* ticks tried beyond each end of [0,1]
PtMax == 2          \* control points and universe bounds are -PtMax..PtMax
MaxHeap == 3        \* entities alive in the operations' specification

D == AlphaDen
AlphaTicks == 0..D
AlphaInputs == (0 - AlphaOut)..(D + AlphaOut)
Points == (0 - PtMax)..PtMax

\* the largest finite magnitude kept, and the value standing for oo
ValMax == 4 * PtMax * D * (D + AlphaOut)
Infty == ValMax + 1
CellMin == 1 - 2 * Infty
CellMax == 2 * Infty - 1

Abs(v) == IF v < 0 THEN 0 - v ELSE v
Min2(x, y) == IF x <= y THEN x ELSE y
Max2(x, y) == IF x <= y THEN y ELSE x
SetMin(S) == CHOOSE m \in S : \A n \in S : m <= n
SetMax(S) == CHOOSE m \in S : \A n \in S : n <= m

\* ---- sympy sets ----
\* a set is the ascending sequence of its runs <<first cell, last cell>>,
\* no two of them adjacent, so that equal sets are equal sequences
EmptySet == <<>>
\* sympy Interval(start, end): closed, empty when end < start, the single
\* point when they are equal, open at an infinite end
Interval(lo, hi) ==
    LET l == Max2(2 * lo, CellMin)
        h == Min2(2 * hi, CellMax)
    IN IF l <= h THEN << <<l, h>> >> ELSE <<>>
is_EmptySet(S) == S = <<>>
\* type(S) == FiniteSet: isolated points only
is_FiniteSet(S) == S # <<>> /\ \A i \in DOMAIN S : S[i][1] = S[i][2] /\ S[i][1] % 2 = 0
\* type(S) == Interval: one piece that is not a point
is_Interval(S) == Len(S) = 1 /\ ~is_FiniteSet(S)
inf(S) == S[1][1] \div 2
sup(S) == (S[Len(S)][2] + 1) \div 2
Contains(S, v) == \E i \in DOMAIN S : S[i][1] <= 2 * v /\ 2 * v <= S[i][2]

RECURSIVE Intersection(_, _)
Intersection(A, B) ==
    IF A = <<>> \/ B = <<>> THEN <<>>
    ELSE LET a == Head(A)
             b == Head(B)
             l == Max2(a[1], b[1])
             h == Min2(a[2], b[2])
             rest == IF a[2] < b[2] THEN Intersection(Tail(A), B)
                     ELSE Intersection(A, Tail(B))
         IN IF l <= h THEN << <<l, h>> >> \o rest ELSE rest

\* the cells from `from` on that are not in A
RECURSIVE ComplementFrom(_, _)
ComplementFrom(A, from) ==
    IF A = <<>>
    THEN IF from <= CellMax THEN << <<from, CellMax>> >> ELSE <<>>
    ELSE (IF from < Head(A)[1] THEN << <<from, Head(A)[1] - 1>> >> ELSE <<>>)
         \o ComplementFrom(Tail(A), Head(A)[2] + 1)

Complement(A) == ComplementFrom(A, CellMin)
Difference(A, B) == Intersection(A, Complement(B))
Union(A, B) == Complement(Intersection(Complement(A), Complement(B)))
IsSubset(A, B) == Intersection(A, B) = A

\* ---- Piecewise membership functions ----
\* a branch is <<expression, condition>>; the expression sign*(x - pt)/den
\* or a constant, as a fraction <<numerator, denominator>> of scaled integers
ExprAt(e, x) ==
    IF e.k = "const" THEN <<e.v, 1>>
    ELSE <<e.sign * (x - e.pt * D), e.den * D>>

CondAt(c, x) ==
    CASE c.k = "open" -> c.lo * D < x /\ x < c.hi * D
      [] c.k = "closed" -> c.lo * D <= x /\ x <= c.hi * D
      [] c.k = "ge" -> x >= c.lo * D
      [] c.k = "le" -> x <= c.hi * D
      [] OTHER -> TRUE

RECURSIVE PiecewiseAt(_, _)
PiecewiseAt(p, x) ==
    IF CondAt(Head(p)[2], x) THEN ExprAt(Head(p)[1], x)
    ELSE PiecewiseAt(Tail(p), x)

Const(v) == [k |-> "const", v |-> v, sign |-> 0, pt |-> 0, den |-> 1]
Rise(a, b) == [k |-> "lin", v |-> 0, sign |-> 1, pt |-> a, den |-> b - a]
Fall(c, d) == [k |-> "lin", v |-> 0, sign |-> 0 - 1, pt |-> d, den |-> d - c]
Open(lo, hi) == [k |-> "open", lo |-> lo, hi |-> hi]
Closed(lo, hi) == [k |-> "closed", lo |-> lo, hi |-> hi]
Ge(b) == [k |-> "ge", lo |-> b, hi |-> b]
Le(a) == [k |-> "le", lo |-> a, hi |-> a]
Always == [k |-> "true", lo |-> 0, hi |-> 0]

\* ---- Xmu: class defaults and the constructors ----
Xmu_muequals == << <<Const(0), Always>> >>
Xmu_xequals == [k \in AlphaInputs |-> EmptySet]

\* BasicXmu(u, func): func None keeps the class default xequals
BasicXmu(u, func) ==
    [cls |-> "BasicXmu", u |-> u, a |-> 0, b |-> 0, c |-> 0, d |-> 0,
     muequals |-> Xmu_muequals, xequals |-> func]

UpwardGradientXmu_setMuFunction(a, b) ==
    << <<Rise(a, b), Open(a, b)>>, <<Const(1), Ge(b)>>, <<Const(0), Always>> >>

\* the slope taken with the wrong sign
UpwardGradientXmu_setXFunction_Falling(u, a, b) ==
    [k \in AlphaInputs |-> Interval(k * a - k * b + a * D, u[2] * D)]

UpwardGradientXmu_setXFunction(u, a, b) ==
    [k \in AlphaInputs |-> Interval(k * b - k * a + a * D, u[2] * D)]

UpwardGradientXmu(u, a, b) ==
    [cls |-> "UpwardGradientXmu", u |-> u, a |-> a, b |-> b, c |-> 0, d |-> 0,
     muequals |-> UpwardGradientXmu_setMuFunction(a, b),
     xequals |-> UpwardGradientXmu_setXFunction(u, a, b)]

DownwardGradientXmu_setMuFunction(a, b) ==
    << <<Fall(a, b), Open(a, b)>>, <<Const(1), Le(a)>>, <<Const(0), Always>> >>

DownwardGradientXmu_setXFunction(u, a, b) ==
    [k \in AlphaInputs |-> Interval(u[1] * D, (0 - k) * b + k * a + b * D)]

DownwardGradientXmu(u, a, b) ==
    [cls |-> "DownwardGradientXmu", u |-> u, a |-> a, b |-> b, c |-> 0, d |-> 0,
     muequals |-> DownwardGradientXmu_setMuFunction(a, b),
     xequals |-> DownwardGradientXmu_setXFunction(u, a, b)]

\* the plateau without its end points
TrapezoidalXmu_setMuFunction_OpenPlateau(a, b, c, d) ==
    << <<Rise(a, b), Open(a, b)>>, <<Const(1), Open(b, c)>>,
       <<Fall(c, d), Open(c, d)>>, <<Const(0), Always>> >>

TrapezoidalXmu_setMuFunction(a, b, c, d) ==
    << <<Rise(a, b), Open(a, b)>>, <<Const(1), Closed(b, c)>>,
       <<Fall(c, d), Open(c, d)>>, <<Const(0), Always>> >>

TrapezoidalXmu_setXFunction(a, b, c, d) ==
    [k \in AlphaInputs |->
        Interval(k * b - k * a + a * D, (0 - k) * d + k * c + d * D)]

TrapezoidalXmu(u, a, b, c, d) ==
    [cls |-> "TrapezoidalXmu", u |-> u, a |-> a, b |-> b, c |-> c, d |-> d,
     muequals |-> TrapezoidalXmu_setMuFunction(a, b, c, d),
     xequals |-> TrapezoidalXmu_setXFunction(a, b, c, d)]

\* setMuFunction stores c := b, d := c and reuses the trapezoid's branches
TriangularXmu_setMuFunction(a, b, c) ==
    << <<Rise(a, b), Open(a, b)>>, <<Const(1), Closed(b, b)>>,
       <<Fall(b, c), Open(b, c)>>, <<Const(0), Always>> >>

\* the falling side drawn from a instead of b
TriangularXmu_setXFunction_WrongPeak(a, b, c) ==
    [k \in AlphaInputs |->
        Interval(k * b - k * a + a * D, (0 - k) * c + k * a + c * D)]

TriangularXmu_setXFunction(a, b, c) ==
    [k \in AlphaInputs |->
        Interval(k * b - k * a + a * D, (0 - k) * c + k * b + c * D)]

\* after both setters: self.c = c (setXFunction), self.d = c (setMuFunction)
TriangularXmu(u, a, b, c) ==
    [cls |-> "TriangularXmu", u |-> u, a |-> a, b |-> b, c |-> c, d |-> c,
     muequals |-> TriangularXmu_setMuFunction(a, b, c),
     xequals |-> TriangularXmu_setXFunction(a, b, c)]

\* ---- interval arithmetic (mpmath mpi) on pairs <<a, b>> of scaled values ----
FloorDiv(n, d) == n \div d
CeilDiv(n, d) == 0 - ((0 - n) \div d)
Finite(v) == Abs(v) <= ValMax
Neg(s) == <<0 - s[2], 0 - s[1]>>
Whole == <<0 - Infty, Infty>>

mpi_add(s, t) == <<s[1] + t[1], s[2] + t[2]>>
\* end point by end point, not lower minus upper
mpi_sub_Pointwise(s, t) == <<s[1] - t[1], s[2] - t[2]>>
mpi_sub(s, t) == <<s[1] - t[2], s[2] - t[1]>>

\* end points rounded outwards to the grid, as mpi rounds them to 53 bits
mpi_mul(s, t) ==
    LET P == {s[1] * t[1], s[1] * t[2], s[2] * t[1], s[2] * t[2]}
    IN <<FloorDiv(SetMin(P), D), CeilDiv(SetMax(P), D)>>

\* the division by a denominator t with 0 <= t[1]
mpi_div_pos(s, t) ==
    IF t[1] = 0
    THEN IF (s[1] < 0 /\ s[2] > 0) \/ t[2] = 0 THEN Whole
         ELSE IF s[1] >= 0 THEN <<FloorDiv(s[1] * D, t[2]), Infty>>
         ELSE <<0 - Infty, CeilDiv(s[2] * D, t[2])>>
    ELSE IF s[1] >= 0 THEN <<FloorDiv(s[1] * D, t[2]), CeilDiv(s[2] * D, t[1])>>
         ELSE IF s[2] <= 0 THEN <<FloorDiv(s[1] * D, t[1]), CeilDiv(s[2] * D, t[2])>>
         ELSE <<FloorDiv(s[1] * D, t[1]), CeilDiv(s[2] * D, t[1])>>

mpi_div(s, t) ==
    IF s[1] = 0 /\ s[2] = 0
    THEN IF (t[1] < 0 /\ t[2] > 0) \/ t[1] = 0 \/ t[2] = 0 THEN Whole ELSE <<0, 0>>
    ELSE IF t[1] < 0 /\ t[2] > 0 THEN Whole
    ELSE IF t[1] < 0 THEN mpi_div_pos(Neg(s), Neg(t))
    ELSE mpi_div_pos(s, t)

RECURSIVE IntPow(_, _)
IntPow(v, n) == IF n = 0 THEN 1 ELSE v * IntPow(v, n - 1)

\* (v/D)^n on the grid, n >= 1, rounded down or up
PowDown(v, n) == FloorDiv(IntPow(v, n), IntPow(D, n - 1))
PowUp(v, n) == CeilDiv(IntPow(v, n), IntPow(D, n - 1))

\* s ** n for an integer n >= 0
mpi_pow_nat(s, n) ==
    IF n = 0 THEN <<D, D>>
    ELSE IF n = 1 THEN s
    ELSE IF n % 2 = 1 \/ s[1] >= 0 THEN <<PowDown(s[1], n), PowUp(s[2], n)>>
    ELSE IF s[2] <= 0 THEN <<PowDown(s[2], n), PowUp(s[1], n)>>
    ELSE <<0, PowUp(Max2(0 - s[1], s[2]), n)>>

mpi_pow_int(s, n) ==
    IF n < 0 THEN mpi_div(<<D, D>>, mpi_pow_nat(s, 0 - n)) ELSE mpi_pow_nat(s, n)

\* the exponent is one integer
IntExponent(t) == t[1] = t[2] /\ t[1] % D = 0

Operations == {"+", "-", "*", "/", "**"}

\* eval("x " + operation + " y"): <<"ok", interval>>, or the exception mpmath
\* raises: a power that is neither an integer power nor the power of a
\* base >= 0 takes the logarithm (or square root) of a negative number
mpi_eval(s, operation, t) ==
    CASE operation = "+" -> <<"ok", mpi_add(s, t)>>
      [] operation = "-" -> <<"ok", mpi_sub(s, t)>>
      [] operation = "*" -> <<"ok", mpi_mul(s, t)>>
      [] operation = "/" -> <<"ok", mpi_div(s, t)>>
      [] OTHER -> IF IntExponent(t) THEN <<"ok", mpi_pow_int(s, t[1] \div D)>>
                  ELSE <<"ComplexResult", <<0, 0>> >>

\* the inputs the model evaluates: finite operands within OperandMax, and
\* for ** an integer exponent within ExpMax or a base with a negative part
\* (the other powers are transcendental and have no value on the grid)
OperandMax == 2 * PtMax * D
ExpMax == PtMax
Modelled(s, operation, t) ==
    /\ Abs(s[1]) <= OperandMax /\ Abs(s[2]) <= OperandMax
    /\ Abs(t[1]) <= OperandMax /\ Abs(t[2]) <= OperandMax
    /\ operation = "**" =>
          \/ IntExponent(t) /\ Abs(t[1]) <= ExpMax * D
          \/ ~IntExponent(t) /\ s[1] < 0

Fits(r) == /\ Finite(r[1]) \/ r[1] = 0 - Infty
           /\ Finite(r[2]) \/ r[2] = Infty

\* Interval.to_mpi(): only an Interval has the method (a Union has none)
has_to_mpi(S) == is_Interval(S)
to_mpi(S) == <<inf(S), sup(S)>>
\* mpmath.mpi(S.inf, S.sup)
mpi(S) == <<inf(S), sup(S)>>

\* arithmeticalOperationX(self, i2, alpha, operation) on the entities self
\* and i2: "None", the exception raised, or "entity" with the interval of
\* the result
\* a cut that is a single point taken for no result
arithmeticalOperationX_PointIsNone(self, i2, alpha, operation) ==
    LET res == self.xequals[alpha]
        res2 == i2.xequals[alpha]
        result == mpi_eval(to_mpi(res), operation, to_mpi(res2))
    IN IF is_Interval(res) /\ is_Interval(res2) /\ result[1] = "ok"
       THEN [ret |-> "entity", iv |-> result[2]]
       ELSE [ret |-> "None", iv |-> <<0, 0>>]
arithmeticalOperationX(self, i2, alpha, operation) ==
    LET res == self.xequals[alpha]
        res2 == i2.xequals[alpha]
        direct == ~is_FiniteSet(res) /\ ~is_FiniteSet(res2)
        result == IF direct THEN mpi_eval(to_mpi(res), operation, to_mpi(res2))
                  ELSE mpi_eval(mpi(res), operation, mpi(res2))
    IN IF ~is_EmptySet(res) /\ ~is_EmptySet(res2)
       THEN IF direct /\ ~(has_to_mpi(res) /\ has_to_mpi(res2))
            THEN [ret |-> "AttributeError", iv |-> <<0, 0>>]
            ELSE IF result[1] # "ok"
            THEN [ret |-> result[1], iv |-> <<0, 0>>]
            ELSE [ret |-> "entity", iv |-> result[2]]
       ELSE [ret |-> "None", iv |-> <<0, 0>>]

\* the calls the model evaluates (see Modelled) and whose result it can keep
InModel(self, i2, alpha, operation) ==
    LET res == self.xequals[alpha]
        res2 == i2.xequals[alpha]
    IN (~is_EmptySet(res) /\ ~is_EmptySet(res2)) =>
         /\ Modelled(<<inf(res), sup(res)>>, operation, <<inf(res2), sup(res2)>>)
         /\ LET r == arithmeticalOperationX(self, i2, alpha, operation)
            IN r.ret = "entity" => Fits(r.iv)

\* ---- set algebra on the X-mu functions (all alpha at once) ----
intersectX(self, target) ==
    BasicXmu(self.u, [k \in AlphaInputs |-> Intersection(target.xequals[k], self.xequals[k])])

\* the operands in the other order: target's cut with self's removed
differenceX_Reversed(self, target) ==
    BasicXmu(self.u, [k \in AlphaInputs |-> Difference(target.xequals[k], self.xequals[k])])
differenceX(self, target) ==
    BasicXmu(self.u, [k \in AlphaInputs |-> Difference(self.xequals[k], target.xequals[k])])

unionX(self, target) ==
    BasicXmu(self.u, [k \in AlphaInputs |-> Union(target.xequals[k], self.xequals[k])])

\* the complement in the real line, not in the universe
negateX_Unbounded(self) ==
    BasicXmu(self.u, [k \in AlphaInputs |-> Complement(self.xequals[k])])

negateX(self) ==
    BasicXmu(self.u,
             [k \in AlphaInputs |->
                 Difference(Interval(self.u[1] * D, self.u[2] * D), self.xequals[k])])

SetOperations == {"intersectX", "differenceX", "unionX"}
SetOperation(name, self, target) ==
    CASE name = "intersectX" -> intersectX(self, target)
      [] name = "differenceX" -> differenceX(self, target)
      [] OTHER -> unionX(self, target)

\* ---- the state: the objects alive, how each was made, the last call ----
VARIABLES heap, made, last
vars == <<heap, made, last>>

Call(op, self, target, alpha, ret, res) ==
    [op |-> op, self |-> self, target |-> target, alpha |-> alpha,
     ret |-> ret, res |-> res]
NoCall == Call("", 0, 0, 0, "", 0)

\* the result also written over the object the call was made on
Allocate_OverSelf(h, self, e) ==
    Append(IF self \in DOMAIN h THEN [h EXCEPT ![self] = e] ELSE h, e)

\* a call returns a new object: the objects there are stay as they are
Allocate(h, self, e) == Append(h, e)

Returns(op, self, target, alpha, e) ==
    LET rec == Call(op, self, target, alpha, "entity", Len(heap) + 1)
    IN /\ heap' = Allocate(heap, self, e)
       /\ made' = Append(made, rec)
       /\ last' = rec

ReturnsNothing(op, self, target, alpha, ret) ==
    /\ last' = Call(op, self, target, alpha, ret, 0)
    /\ UNCHANGED <<heap, made>>

Init == heap = <<>> /\ made = <<>> /\ last = NoCall

\* ---- constructors: inputs INS of <<universe, control points>>, at most n
\* objects ----
NewBasicXmu(INS, n) ==
    /\ Len(heap) < n
    /\ \E inp \in INS :
         Returns("BasicXmu", Len(heap) + 1, 0, 0, BasicXmu(inp[1], Xmu_xequals))

NewUpwardGradientXmu(INS, n) ==
    /\ Len(heap) < n
    /\ \E inp \in INS :
         Returns("UpwardGradientXmu", Len(heap) + 1, 0, 0,
                 UpwardGradientXmu(inp[1], inp[2][1], inp[2][2]))

NewDownwardGradientXmu(INS, n) ==
    /\ Len(heap) < n
    /\ \E inp \in INS :
         Returns("DownwardGradientXmu", Len(heap) + 1, 0, 0,
                 DownwardGradientXmu(inp[1], inp[2][1], inp[2][2]))

NewTrapezoidalXmu(INS, n) ==
    /\ Len(heap) < n
    /\ \E inp \in INS :
         Returns("TrapezoidalXmu", Len(heap) + 1, 0, 0,
                 TrapezoidalXmu(inp[1], inp[2][1], inp[2][2], inp[2][3], inp[2][4]))

NewTriangularXmu(INS, n) ==
    /\ Len(heap) < n
    /\ \E inp \in INS :
         Returns("TriangularXmu", Len(heap) + 1, 0, 0,
                 TriangularXmu(inp[1], inp[2][1], inp[2][2], inp[2][3]))

\* ---- the operations ----
SetAlgebraX(name) ==
    /\ Len(heap) < MaxHeap
    /\ \E i, j \in DOMAIN heap :
         Returns(name, i, j, 0, SetOperation(name, heap[i], heap[j]))

NegateX ==
    /\ Len(heap) < MaxHeap
    /\ \E i \in DOMAIN heap : Returns("negateX", i, 0, 0, negateX(heap[i]))

ArithmeticX(name, operation, n) ==
    \E i, j \in DOMAIN heap, alpha \in AlphaInputs :
        /\ Len(heap) < n
        /\ InModel(heap[i], heap[j], alpha, operation)
        /\ LET r == arithmeticalOperationX(heap[i], heap[j], alpha, operation)
           IN IF r.ret = "entity"
              THEN Returns(name, i, j, alpha,
                           BasicXmu(heap[i].u,
                                    [k \in AlphaInputs |-> Interval(r.iv[1], r.iv[2])]))
              ELSE ReturnsNothing(name, i, j, alpha, r.ret)

IntersectX == SetAlgebraX("intersectX")
DifferenceX == SetAlgebraX("differenceX")
UnionX == SetAlgebraX("unionX")
AddX(n) == ArithmeticX("addX", "+", n)
SubX(n) == ArithmeticX("subX", "-", n)
MultiplyX == ArithmeticX("multiplyX", "*", MaxHeap)
DivX == ArithmeticX("divX", "/", MaxHeap)
PowX == ArithmeticX("powX", "**", MaxHeap)

\* ---- the shape generators alone: one entity, every control point ----
Universes == {u \in Points \X Points : u[1] <= u[2]}

NextShape ==
    \/ NewBasicXmu(Universes \X {<<>>}, 1)
    \/ NewUpwardGradientXmu(Universes \X (Points \X Points), 1)
    \/ NewDownwardGradientXmu(Universes \X (Points \X Points), 1)
    \/ NewTrapezoidalXmu(Universes \X (Points \X Points \X Points \X Points), 1)
    \/ NewTriangularXmu(Universes \X (Points \X Points \X Points), 1)

SpecShape == Init /\ [][NextShape]_vars

\* ---- the shape generators' claims ----
Shapes == {"UpwardGradientXmu", "DownwardGradientXmu", "TrapezoidalXmu", "TriangularXmu"}
IsTriangle(e) == e.cls = "TriangularXmu"
IsTrapezoid(e) == e.cls = "TrapezoidalXmu"
IsUpward(e) == e.cls = "UpwardGradientXmu"
IsDownward(e) == e.cls = "DownwardGradientXmu"
Entities == {heap[i] : i \in DOMAIN heap}
ShapeEntities == {e \in Entities : e.cls \in Shapes}

\* the ordering the generators ask of their control points
Ordered(e) ==
    CASE IsTriangle(e) -> e.a <= e.b /\ e.b <= e.c
      [] IsTrapezoid(e) -> e.a <= e.b /\ e.b <= e.c /\ e.c <= e.d
      [] IsUpward(e) \/ IsDownward(e) -> e.a <= e.b
      [] OTHER -> TRUE
OrderedShapes == {e \in ShapeEntities : Ordered(e)}

\* the control point p lies in the universe of e; all control points of e do
InUniverse(e, p) == e.u[1] <= p /\ p <= e.u[2]
PointsInside(e) ==
    CASE IsTriangle(e) -> \A p \in {e.a, e.b, e.c} : InUniverse(e, p)
      [] IsTrapezoid(e) -> \A p \in {e.a, e.b, e.c, e.d} : InUniverse(e, p)
      [] OTHER -> \A p \in {e.a, e.b} : InUniverse(e, p)

\* the points of the universe of e on the grid
UniversePoints(e) == (e.u[1] * D)..(e.u[2] * D)
\* mu(x) >= k/D for the value <<n, d>> of mu(x), d > 0
AtLeast(m, k) == m[1] * D >= k * m[2]

\* C1: with ordered control points the alpha-cut at alpha = 0 is the support
\* and at alpha = 1 the core: Triangular [a,c] and the point b, Trapezoidal
\* [a,d] and [b,c], UpwardGradient [a,sup U] and [b,sup U], DownwardGradient
\* [inf U,b] and [inf U,a].
C1_SupportAndCore ==
    \A e \in OrderedShapes :
        /\ IsTriangle(e) =>
              /\ e.xequals[0] = Interval(e.a * D, e.c * D)
              /\ e.xequals[D] = << <<2 * e.b * D, 2 * e.b * D>> >>
        /\ IsTrapezoid(e) =>
              /\ e.xequals[0] = Interval(e.a * D, e.d * D)
              /\ e.xequals[D] = Interval(e.b * D, e.c * D)
        /\ IsUpward(e) =>
              /\ e.xequals[0] = Interval(e.a * D, e.u[2] * D)
              /\ e.xequals[D] = Interval(e.b * D, e.u[2] * D)
        /\ IsDownward(e) =>
              /\ e.xequals[0] = Interval(e.u[1] * D, e.b * D)
              /\ e.xequals[D] = Interval(e.u[1] * D, e.a * D)

\* a triangle with a < b < c: its cut at 0 is a proper interval, at 1 a point
C1_Witness ==
    \E e \in OrderedShapes :
        /\ IsTriangle(e) /\ e.a < e.b /\ e.b < e.c
        /\ is_Interval(e.xequals[0]) /\ is_FiniteSet(e.xequals[D])

\* C2: for each of the four shapes and levels alpha1 < alpha2 in [0,1] the
\* alpha-cut at alpha2 is a subset of the alpha-cut at alpha1.
C2_Monotone ==
    \A e \in OrderedShapes :
        \A k1, k2 \in AlphaTicks :
            k1 < k2 => IsSubset(e.xequals[k2], e.xequals[k1])

\* a shape whose cut shrinks strictly between two levels and stays non-empty
C2_Witness ==
    \E e \in OrderedShapes :
        \E k1, k2 \in AlphaTicks :
            /\ k1 < k2
            /\ ~is_EmptySet(e.xequals[k2])
            /\ e.xequals[k2] # e.xequals[k1]

\* x is in the alpha-cut of e at k/D exactly when mu(x) >= k/D
Consistent(e, k) ==
    \A x \in UniversePoints(e) :
        Contains(e.xequals[k], x) <=> AtLeast(PiecewiseAt(e.muequals, x), k)

\* C3 (as amended): for every shape built from ordered control points,
\* every alpha in (0,1] and every x of the universe, x is in the alpha-cut
\* at alpha exactly when mu(x) >= alpha.
C3_ConsistentAbove0 ==
    \A e \in OrderedShapes : \A k \in AlphaTicks \ {0} : Consistent(e, k)

\* C3 as claimed: the same for every alpha in [0,1], alpha = 0 included
\* (stated for control points inside the universe)
C3_ConsistentFrom0 ==
    \A e \in OrderedShapes :
        PointsInside(e) => \A k \in AlphaTicks : Consistent(e, k)

\* a trapezoid with both slopes, and a point of the universe on each side
\* of its cut at an alpha strictly between 0 and 1
C3_Witness ==
    \E e \in OrderedShapes :
        /\ IsTrapezoid(e) /\ e.a < e.b /\ e.c < e.d
        /\ \E k \in AlphaTicks \ {0, D} :
             \E x, y \in UniversePoints(e) :
                Contains(e.xequals[k], x) /\ ~Contains(e.xequals[k], y)

\* C8: no entity with control points out of order is ever created.
C8_NoMisorderedEntity == \A e \in ShapeEntities : Ordered(e)

\* ---- the operations: a few shapes, then set algebra and arithmetic ----
\* the universes [0,2] and [-2,2]; a triangle out of order, one below 0 and
\* one that leaves its universe; a crisp trapezoid
U1 == <<0, 2>>
U2 == <<0 - 2, 2>>
BasicInputs == {<<U1, <<>> >>}
UpwardInputs == {<<U1, <<0, 1>> >>, <<U2, <<0, 1>> >>}
DownwardInputs == {<<U1, <<1, 2>> >>, <<U2, <<1, 2>> >>}
TrapezoidalInputs == {<<U1, <<1, 1, 2, 2>> >>}
TriangularInputs ==
    {<<U1, <<0, 1, 2>> >>, <<U1, <<2, 1, 0>> >>, <<U2, <<0 - 2, 0 - 1, 0 - 1>> >>,
     <<U1, <<1, 2, 3>> >>}

\* A run is followed up to its first call that returns no entity: such a
\* call leaves every object as it was (an exception ends the program), so
\* the calls after it are those of the state before it.
Running == last.ret \in {"", "entity"}

Next ==
    \/ Running /\ NewBasicXmu(BasicInputs, MaxHeap)
    \/ Running /\ NewUpwardGradientXmu(UpwardInputs, MaxHeap)
    \/ Running /\ NewDownwardGradientXmu(DownwardInputs, MaxHeap)
    \/ Running /\ NewTrapezoidalXmu(TrapezoidalInputs, MaxHeap)
    \/ Running /\ NewTriangularXmu(TriangularInputs, MaxHeap)
    \/ Running /\ IntersectX
    \/ Running /\ DifferenceX
    \/ Running /\ UnionX
    \/ Running /\ NegateX
    \/ Running /\ AddX(MaxHeap)
    \/ Running /\ SubX(MaxHeap)
    \/ Running /\ MultiplyX
    \/ Running /\ DivX
    \/ Running /\ PowX

Spec == Init /\ [][Next]_vars

\* ---- addition and subtraction alone, one entity more ----
NextRoundTrip ==
    \/ Running /\ NewUpwardGradientXmu({<<U1, <<0, 1>> >>}, MaxHeap + 1)
    \/ Running /\ NewTrapezoidalXmu(TrapezoidalInputs, MaxHeap + 1)
    \/ Running /\ NewTriangularXmu({<<U1, <<0, 1, 2>> >>}, MaxHeap + 1)
    \/ Running /\ AddX(MaxHeap + 1)
    \/ Running /\ SubX(MaxHeap + 1)

SpecRoundTrip == Init /\ [][NextRoundTrip]_vars

\* ---- the operations' claims ----
ArithmeticNames == {"addX", "subX", "multiplyX", "divX", "powX"}
CallNames == SetOperations \cup {"negateX"} \cup ArithmeticNames
\* the operands of the last call, an arithmetic one, at its alpha
LastRes == heap[last.self].xequals[last.alpha]
LastRes2 == heap[last.target].xequals[last.alpha]
HasInfiniteEnd(S) == S # <<>> /\ (inf(S) = 0 - Infty \/ sup(S) = Infty)

\* C4: an arithmetic operation at a concrete alpha returns None when the
\* alpha-cut of either operand at that alpha is empty, and an entity when
\* both are non-empty.
C4_NoneOrEntity ==
    (last.op \in ArithmeticNames /\ last.alpha \in AlphaTicks) =>
        IF is_EmptySet(LastRes) \/ is_EmptySet(LastRes2)
        THEN last.ret = "None"
        ELSE last.ret = "entity"

\* C5: dividing by an operand whose alpha-cut at the given alpha contains 0
\* yields None; divX never returns an entity with an infinite end point.
C5_DivisionByZeroIsNone ==
    (last.op = "divX" /\ last.alpha \in AlphaTicks) =>
        /\ (~is_EmptySet(LastRes) /\ Contains(LastRes2, 0)) => last.ret = "None"
        /\ last.ret = "entity" => ~HasInfiniteEnd(heap[last.res].xequals[last.alpha])

\* the subtractions sub(R, B, alpha) of a sum R = add(A, B, alpha)
RoundTrips ==
    {i \in DOMAIN heap :
        /\ made[i].op = "subX"
        /\ made[i].alpha \in AlphaTicks
        /\ made[made[i].self].op = "addX"
        /\ made[made[i].self].target = made[i].target
        /\ made[made[i].self].alpha = made[i].alpha}
RoundTripA(i) == heap[made[made[i].self].self].xequals[made[i].alpha]
RoundTripB(i) == heap[made[i].target].xequals[made[i].alpha]
Width(S) == sup(S) - inf(S)

\* C6 (as amended): sub(add(A,B,alpha), B, alpha) is the interval
\* [lo_a - (hi_b - lo_b), hi_a + (hi_b - lo_b)]: A's interval widened on
\* both sides by the width of B's, and A's interval itself exactly when B's
\* alpha-cut is a single point.
C6_RoundTripWidens ==
    \A i \in RoundTrips :
        heap[i].xequals[made[i].alpha] =
            Interval(inf(RoundTripA(i)) - Width(RoundTripB(i)),
                     sup(RoundTripA(i)) + Width(RoundTripB(i)))

\* C6 as claimed: sub(add(A,B,alpha), B, alpha) is A's interval at alpha
C6_RoundTripExact ==
    \A i \in RoundTrips :
        heap[i].xequals[made[i].alpha] =
            Interval(inf(RoundTripA(i)), sup(RoundTripA(i)))

\* a round trip through a B that is an interval of positive width
C6_Witness ==
    \E i \in RoundTrips :
        /\ made[i].target # made[made[i].self].self
        /\ is_Interval(RoundTripA(i)) /\ Width(RoundTripB(i)) > 0

\* C7: an arithmetic operation with alpha outside [0,1] is rejected with an
\* AlphaOutOfRange error (here: of operands whose cuts there are not empty).
C7_AlphaOutOfRangeRejected ==
    (/\ last.op \in ArithmeticNames /\ last.alpha \notin AlphaTicks
     /\ ~is_EmptySet(LastRes) /\ ~is_EmptySet(LastRes2)) =>
        last.ret = "AlphaOutOfRange"

\* built by a constructor from control points inside the universe, or from
\* such entities of one universe by set algebra (and, with arith, by the
\* arithmetic operations too)
RECURSIVE Derived(_, _)
Derived(i, arith) ==
    CASE made[i].op \in Shapes -> PointsInside(heap[i])
      [] made[i].op = "BasicXmu" -> TRUE
      [] made[i].op = "negateX" -> Derived(made[i].self, arith)
      [] OTHER ->
            /\ made[i].op \in SetOperations \/ (arith /\ made[i].alpha \in AlphaTicks)
            /\ Derived(made[i].self, arith)
            /\ Derived(made[i].target, arith)
            /\ heap[made[i].self].u = heap[made[i].target].u
WithinUniverse(i) == Derived(i, FALSE)

CutsInsideUniverse(e) ==
    \A k \in AlphaTicks : IsSubset(e.xequals[k], Interval(e.u[1] * D, e.u[2] * D))

C10_EntitiesAreValues ==
    [][last'.op \in CallNames =>
          \A i \in DOMAIN heap : i \in DOMAIN heap' /\ heap'[i] = heap[i]]_vars

\* an operation has returned an entity computed from a shape
C10_Witness ==
    /\ last.op \in CallNames /\ last.ret = "entity"
    /\ heap[last.self].cls \in Shapes
    /\ \E k \in AlphaTicks : heap[last.res].xequals[k] # heap[last.self].xequals[k]

\* ---- addX on intervals and points ----
\* one piece: an interval or a single point
OnePiece(S) == Len(S) = 1

\* C11: addX at a concrete alpha in [0,1], when the alpha-cuts of both
\* operands at that alpha are non-empty intervals [lo_a,hi_a] and
\* [lo_b,hi_b], returns an entity whose interval is exactly
\* [lo_a+lo_b, hi_a+hi_b]; a cut that is a single point p counts as [p,p]
\* and gives an entity too, not None.
C11_AddIsExact ==
    (/\ last.op = "addX" /\ last.alpha \in AlphaTicks
     /\ OnePiece(LastRes) /\ OnePiece(LastRes2)) =>
        /\ last.ret = "entity"
        /\ \A k \in AlphaInputs :
              heap[last.res].xequals[k] =
                  Interval(inf(LastRes) + inf(LastRes2), sup(LastRes) + sup(LastRes2))

\* a triangle at alpha = 1, a single point, added to an interval that is
\* not a point
C11_Witness ==
    /\ last.op = "addX" /\ last.alpha = D /\ last.ret = "entity"
    /\ IsTriangle(heap[last.self]) /\ Ordered(heap[last.self])
    /\ is_FiniteSet(LastRes) /\ OnePiece(LastRes)
    /\ is_Interval(LastRes2) /\ inf(LastRes2) < sup(LastRes2)

\* ---- the operand order of differenceX ----
Cells == CellMin..CellMax
HasCell(S, c) == \E i \in DOMAIN S : S[i][1] <= c /\ c <= S[i][2]
Differences == {i \in DOMAIN heap : made[i].op = "differenceX"}

\* C12: self.differenceX(target) is, at every alpha, the alpha-cut of self
\* with the alpha-cut of target removed, and it has the universe of self.
C12_ThisMinusTarget ==
    \A i \in Differences :
        LET self == heap[made[i].self]
            target == heap[made[i].target]
        IN /\ heap[i].u = self.u
           /\ \A k \in AlphaInputs : \A c \in Cells :
                 HasCell(heap[i].xequals[k], c) <=>
                     (HasCell(self.xequals[k], c) /\ ~HasCell(target.xequals[k], c))

\* operands of different universes whose cuts overlap at an alpha: the
\* result is neither the cut of self nor target's cut with self's removed
C12_Witness ==
    \E i \in Differences :
        LET self == heap[made[i].self]
            target == heap[made[i].target]
        IN /\ self.u # target.u
           /\ \E k \in AlphaTicks :
                 /\ ~is_EmptySet(heap[i].xequals[k])
                 /\ heap[i].xequals[k] # self.xequals[k]
                 /\ \E c \in Cells :
                       HasCell(target.xequals[k], c) /\ ~HasCell(self.xequals[k], c)

====
